---- MODULE Spec2Model ----
(***************************************************************************)
(* rust_snake (src/src/main.rs): the game loop of `run`, the Head, the     *)
(* Tail segments and the tile Map, as a state machine.                     *)
(*                                                                         *)
(* One iteration of the `while is_running && window.is_open()` loop is a   *)
(* frame.  A frame is the sequence of program points                       *)
(*   poll -> inputs -> blocked -> active -> (pick) -> self -> tick         *)
(* and pc names the point the loop is at.  Screen positions are pixels     *)
(* (multiples of BLOCK_SIZE from the spawn), grid coordinates are obtained *)
(* from them by get_tile_coord, as in the source.                          *)
(***************************************************************************)
EXTENDS Integers, Sequences, FiniteSets, TLC

VARIABLES
    head,         \* head.rect_shape.position(): [x, y] in pixels
    dir,          \* head.dir
    tail,         \* Vec<Tail>: sequence of [x, y] pixel positions, 1 = nearest to head
    tiles,        \* map.tiles: sequence of tile types, row-major (index 0 is tiles[1])
    keys_hm,      \* keys_hm: pressed state of W, S, A, D
    pause,        \* pause
    is_running,   \* is_running
    add_segment,  \* add_segment (pending growth)
    hx, hy,       \* the frame's locals (hx, hy) of line 489
    pc,           \* program point of the loop
    eaten,        \* history: Active tiles consumed since the previous tick (saturating)
    went,        \* history: heading of the last tick's movement, "none" after a reset
    fr,           \* history: the state at the start of the frame and what the frame did
    last          \* history: the operation the last step performed and the snake before it

vars == <<head, dir, tail, tiles, keys_hm, pause, is_running, add_segment, hx, hy, pc,
          eaten, went, fr, last>>

-----------------------------------------------------------------------------
(* Constants of the program and bounds of the model *)

BLOCK_SIZE == 25

\* The window of the model is 175 x 200 pixels (7 x 8 tiles) instead of 800 x 600.
SCREEN_WIDTH == 175
SCREEN_HEIGHT == 200

\* Head::new(150.0, 150.0, ..) and head.reset(150.0, 150.0)
SpawnX == 150
SpawnY == 150

\* The tick that would append a segment beyond MaxTail segments is not explored.
MaxTail == 2

\* The history counter eaten saturates at MaxEaten.
MaxEaten == 2

\* Grid coordinates from -QueryPad to rows - 1 + QueryPad (cols - 1 + QueryPad) are queried.
QueryPad == 2

Directions == {"Up", "Down", "Left", "Right"}
TileTypes == {"Blocked", "NonBlocked", "Active", "NonActive"}
MoveKeys == {"W", "S", "A", "D"}
KeyCodes == MoveKeys \cup {"Escape", "P", "Other"}

\* rows = (width / 25) as i32, cols = (height / 25) as i32
rows == SCREEN_WIDTH \div 25
cols == SCREEN_HEIGHT \div 25

-----------------------------------------------------------------------------
(* Level data: the characters of assets/map/data.txt, 0 / 1 / 2 for the    *)
(* tiles and 10 for the newline at the end of each line.                   *)

LevelClosed ==
    <<1,1,1,1,1,1,1,10>> \o
    <<1,1,1,1,1,1,1,10>> \o
    <<1,1,1,1,1,1,1,10>> \o
    <<1,1,1,1,1,1,1,10>> \o
    <<1,1,1,1,1,1,1,10>> \o
    <<1,1,1,1,2,0,0,10>> \o
    <<1,1,1,1,0,0,0,10>> \o
    <<1,1,1,1,1,1,1,10>>

\* A room of 2x2 cells with three free tiles at the start of row 6: the free
\* tiles of row 5 end at the grid's right edge, so the head can walk on past it.
LevelOpen ==
    <<1,1,1,1,1,1,1,10>> \o
    <<1,1,1,1,1,1,1,10>> \o
    <<1,1,1,1,1,1,1,10>> \o
    <<1,1,1,1,1,1,1,10>> \o
    <<1,1,1,1,1,1,1,10>> \o
    <<1,1,1,1,1,2,0,10>> \o
    <<0,0,0,1,1,0,0,10>> \o
    <<1,1,1,1,1,1,1,10>>

Levels == {LevelClosed, LevelOpen}

\* load_from_file: '0' -> NonBlocked, '1' -> Blocked, '2' -> Active, anything else skipped
load_from_file(data) ==
    LET kept == SelectSeq(data, LAMBDA c : c \in {0, 1, 2})
    IN  [i \in 1..Len(kept) |->
            IF kept[i] = 0 THEN "NonBlocked"
            ELSE IF kept[i] = 1 THEN "Blocked" ELSE "Active"]

-----------------------------------------------------------------------------
(* Map *)

\* Rust's integer division truncates toward zero
TruncDiv(a, b) == IF a >= 0 THEN a \div b ELSE -((-a) \div b)

\* Map::get_tile_coord
get_tile_coord(x, y) == <<TruncDiv(x, BLOCK_SIZE), TruncDiv(y, BLOCK_SIZE)>>

\* a plausible bug: the row is scaled by the height instead of the width
tile_index_by_height(x, y) == x + cols * y

\* let coord = x + self.width * y
tile_index(x, y) == x + rows * y

\* self.tiles.get(coord as usize) is Some
has_tile(ts, coord) == coord >= 0 /\ coord < Len(ts)

\* a plausible bug: the tile type is not compared, any tile that is not free counts
is_tile_active_or_blocked(ts, x, y) ==
    LET coord == tile_index(x, y)
    IN  IF coord < 0 THEN FALSE
        ELSE IF has_tile(ts, coord) THEN ts[coord + 1] \in {"Active", "Blocked"}
        ELSE FALSE

\* Map::is_tile_active
is_tile_active(ts, x, y) ==
    LET coord == tile_index(x, y)
    IN  IF coord < 0 THEN FALSE
        ELSE IF has_tile(ts, coord) THEN ts[coord + 1] = "Active"
        ELSE FALSE

\* Map::is_tile_blocked
is_tile_blocked(ts, x, y) ==
    LET coord == tile_index(x, y)
    IN  IF coord < 0 THEN FALSE
        ELSE IF has_tile(ts, coord) THEN ts[coord + 1] = "Blocked"
        ELSE FALSE

\* Map::activate_tile
activate_tile(ts, x, y) ==
    LET coord == tile_index(x, y)
    IN  IF coord < 0 THEN ts
        ELSE IF has_tile(ts, coord) THEN [ts EXCEPT ![coord + 1] = "Active"]
        ELSE ts

\* Map::deactivate_tile
deactivate_tile(ts, x, y) ==
    LET coord == tile_index(x, y)
    IN  IF coord < 0 THEN ts
        ELSE IF has_tile(ts, coord) THEN [ts EXCEPT ![coord + 1] = "NonActive"]
        ELSE ts

-----------------------------------------------------------------------------
(* Head *)

Spawn == [x |-> SpawnX, y |-> SpawnY]

Opposite(d) ==
    CASE d = "Up" -> "Down"
      [] d = "Down" -> "Up"
      [] d = "Left" -> "Right"
      [] d = "Right" -> "Left"

\* a plausible bug: W is accepted while heading Down
inputs_no_reject(d, km) ==
    IF km["W"] THEN "Up"
    ELSE IF km["S"] /\ d # "Up" THEN "Down"
    ELSE IF km["A"] /\ d # "Right" THEN "Left"
    ELSE IF km["D"] /\ d # "Left" THEN "Right"
    ELSE d

\* a plausible bug: A is tested before S
inputs_swapped(d, km) ==
    IF km["W"] /\ d # "Down" THEN "Up"
    ELSE IF km["A"] /\ d # "Right" THEN "Left"
    ELSE IF km["S"] /\ d # "Up" THEN "Down"
    ELSE IF km["D"] /\ d # "Left" THEN "Right"
    ELSE d

\* Head::inputs (is_active is true from construction on and never written)
inputs(d, km) ==
    IF km["W"] /\ d # "Down" THEN "Up"
    ELSE IF km["S"] /\ d # "Up" THEN "Down"
    ELSE IF km["A"] /\ d # "Right" THEN "Left"
    ELSE IF km["D"] /\ d # "Left" THEN "Right"
    ELSE d

\* the match of Head::update
new_dir(d) ==
    CASE d = "Up" -> [x |-> 0, y |-> -1]
      [] d = "Down" -> [x |-> 0, y |-> 1]
      [] d = "Left" -> [x |-> -1, y |-> 0]
      [] d = "Right" -> [x |-> 1, y |-> 0]

\* Head::update: rect_shape.move_(new_dir * scale)
Head_update(h, d) ==
    [x |-> h.x + new_dir(d).x * BLOCK_SIZE, y |-> h.y + new_dir(d).y * BLOCK_SIZE]

\* a plausible bug: the heading is not restored
Head_reset_keep_dir(h, d, x, y) == [head |-> [x |-> x, y |-> y], dir |-> d]

\* Head::reset: set_pos(x, y); set_direction(Right)
Head_reset(h, d, x, y) == [head |-> [x |-> x, y |-> y], dir |-> "Right"]

-----------------------------------------------------------------------------
(* Tail *)

\* Tail::new
Tail_new(x, y) == [x |-> x, y |-> y]

\* a plausible bug: the segment is moved by the target instead of by the difference
Tail_update_no_diff(t, px, py) == [x |-> t.x + px, y |-> t.y + py]

\* Tail::update: nd = (px, py) - position; move_(nd)
Tail_update(t, px, py) ==
    LET nd == [x |-> px - t.x, y |-> py - t.y]
    IN  [x |-> t.x + nd.x, y |-> t.y + nd.y]

-----------------------------------------------------------------------------
(* Functions *)

\* on_key_down
on_key_down(km, key) == IF key \in DOMAIN km THEN [km EXCEPT ![key] = TRUE] ELSE km

\* on_key_up
on_key_up(km, key) == IF key \in DOMAIN km THEN [km EXCEPT ![key] = FALSE] ELSE km

\* the float division and cast of new_random_tile: (get_x() / BLOCK_SIZE) as i32
cell_of(p) == TruncDiv(p, BLOCK_SIZE)

\* a plausible bug: the sample is not tested against the Blocked tiles
rejected_no_blocked(rng_x, rng_y, h, tl, ts) ==
    \/ rng_x = cell_of(h.x) \/ rng_y = cell_of(h.y)
    \/ \E i \in 1..Len(tl) : cell_of(tl[i].x) = rng_x \/ cell_of(tl[i].y) = rng_y

\* one iteration of the loop of new_random_tile: TRUE when the sample is rejected
rejected(rng_x, rng_y, h, tl, ts) ==
    \/ rng_x = cell_of(h.x) \/ rng_y = cell_of(h.y)
    \/ \E i \in 1..Len(tl) : cell_of(tl[i].x) = rng_x \/ cell_of(tl[i].y) = rng_y
    \/ is_tile_blocked(ts, rng_x, rng_y)

\* a plausible bug: the upper end of the range is included
rand_range_inclusive(min_value, max_value) ==
    LET min_v == IF min_value < max_value THEN min_value ELSE max_value
        max_v == IF min_value < max_value THEN max_value ELSE min_value
    IN  min_v .. max_v

\* rand_range(1, rows - 1): gen_range excludes its upper end
rand_range(min_value, max_value) ==
    LET min_v == IF min_value < max_value THEN min_value ELSE max_value
        max_v == IF min_value < max_value THEN max_value ELSE min_value
    IN  min_v .. (max_v - 1)

-----------------------------------------------------------------------------
(* The movement of one tick (lines 518-537) *)

\* a plausible bug: the rolling position is read after the segment moved
RECURSIVE tail_loop_read_after(_, _, _)
tail_loop_read_after(tl, i, prev) ==
    IF i > Len(tl) THEN [tail |-> tl, prev |-> prev]
    ELSE LET moved == [tl EXCEPT ![i] = Tail_update(tl[i], prev.x, prev.y)]
         IN  tail_loop_read_after(moved, i + 1, moved[i])

\* for t in tail.iter_mut() { prev_t = t.pos; t.update(prev); prev = prev_t }
RECURSIVE tail_loop(_, _, _)
tail_loop(tl, i, prev) ==
    IF i > Len(tl) THEN [tail |-> tl, prev |-> prev]
    ELSE LET prev_t == tl[i]
             moved == [tl EXCEPT ![i] = Tail_update(tl[i], prev.x, prev.y)]
         IN  tail_loop(moved, i + 1, prev_t)

\* a plausible bug: the flag is not cleared
grow_keep_flag(tl, add, prev) ==
    IF add THEN [tail |-> Append(tl, Tail_new(prev.x, prev.y)), add |-> add]
    ELSE [tail |-> tl, add |-> add]

\* if add_segment { tail.push(Tail::new(prev_x, prev_y)); add_segment = false }
grow(tl, add, prev) ==
    IF add THEN [tail |-> Append(tl, Tail_new(prev.x, prev.y)), add |-> FALSE]
    ELSE [tail |-> tl, add |-> add]

\* a plausible bug: the new segment is placed at the head's old position
step_head_prev(h, d, tl, add) ==
    LET lp == tail_loop(tl, 1, h)
        g == grow(lp.tail, add, h)
    IN  [head |-> Head_update(h, d), tail |-> g.tail, add |-> g.add]

\* the body of `if update_snake.elapsed_time().as_milliseconds() >= 95`
step(h, d, tl, add) ==
    LET lp == tail_loop(tl, 1, h)
        g == grow(lp.tail, add, lp.prev)
    IN  [head |-> Head_update(h, d), tail |-> g.tail, add |-> g.add]

-----------------------------------------------------------------------------
(* The game loop *)

Snap(op) ==
    [op |-> op, head |-> head, dir |-> dir, tail |-> tail, add |-> add_segment,
     eaten |-> eaten, gx |-> 0, gy |-> 0, gwas |-> "none", went |-> went]

\* no frame body is running
NoFrame ==
    [head |-> Spawn, dir |-> "Right", tail |-> <<>>, add |-> FALSE, tiles |-> <<>>,
     breset |-> FALSE, sreset |-> FALSE, ate |-> FALSE]

\* the frame body starts
FrameStart ==
    [head |-> head, dir |-> dir, tail |-> tail, add |-> add_segment, tiles |-> tiles,
     breset |-> FALSE, sreset |-> FALSE, ate |-> FALSE]

Init ==
    /\ head = Spawn
    /\ dir = "Right"
    /\ tail = <<>>
    /\ \E lv \in Levels : tiles = load_from_file(lv)
    /\ keys_hm = [k \in MoveKeys |-> FALSE]
    /\ pause = FALSE
    /\ is_running = TRUE
    /\ add_segment = FALSE
    /\ hx = 0
    /\ hy = 0
    /\ pc = "poll"
    /\ eaten = 0
    /\ went = "none"
    /\ fr = NoFrame
    /\ last = [op |-> "init", head |-> Spawn, dir |-> "Right", tail |-> <<>>, add |-> FALSE,
               eaten |-> 0, gx |-> 0, gy |-> 0, gwas |-> "none", went |-> "none"]

\* one event of `while let Some(ev) = window.poll_event()`
PollEvent ==
    /\ pc = "poll"
    /\ \E ev \in ({"Closed"} \X {"Other"}) \cup ({"KeyPressed", "KeyReleased"} \X KeyCodes) :
         LET type == ev[1]
             code == ev[2]
         IN  /\ is_running' = IF type = "Closed" \/ (type = "KeyPressed" /\ code = "Escape")
                              THEN FALSE ELSE is_running
             /\ pause' = IF type = "KeyPressed" /\ code = "P" THEN ~pause ELSE pause
             /\ keys_hm' = IF type = "KeyPressed" /\ code \in MoveKeys THEN on_key_down(keys_hm, code)
                           ELSE IF type = "KeyReleased" /\ code \in MoveKeys THEN on_key_up(keys_hm, code)
                           ELSE keys_hm
    /\ last' = Snap(IF pause /\ keys_hm' # keys_hm THEN "poll_paused_key" ELSE "poll")
    /\ fr' = NoFrame
    /\ UNCHANGED <<head, dir, tail, tiles, add_segment, hx, hy, pc, eaten, went>>

\* a plausible bug: the frame body is not gated by pause
PollDone_no_gate ==
    /\ pc = "poll"
    /\ pc' = "inputs"
    /\ last' = Snap("poll")
    /\ fr' = FrameStart
    /\ UNCHANGED <<head, dir, tail, tiles, keys_hm, pause, is_running, add_segment, hx, hy,
                   eaten, went>>

\* the event queue is empty: `if !pause` and, when paused, the loop condition again
PollDone ==
    /\ pc = "poll"
    /\ pc' = IF ~pause THEN "inputs" ELSE IF is_running THEN "poll" ELSE "done"
    /\ last' = Snap("poll")
    /\ fr' = IF ~pause THEN FrameStart ELSE NoFrame
    /\ UNCHANGED <<head, dir, tail, tiles, keys_hm, pause, is_running, add_segment, hx, hy,
                   eaten, went>>

\* head.inputs(&keys_hm)
Inputs ==
    /\ pc = "inputs"
    /\ dir' = inputs(dir, keys_hm)
    /\ pc' = "blocked"
    /\ last' = Snap("inputs")
    /\ UNCHANGED <<head, tail, tiles, keys_hm, pause, is_running, add_segment, hx, hy,
                   eaten, went, fr>>

\* (hx, hy) = get_tile_coord(..); if map.is_tile_blocked(hx, hy) { reset }
CheckBlocked ==
    /\ pc = "blocked"
    /\ LET c == get_tile_coord(head.x, head.y)
           r == Head_reset(head, dir, SpawnX, SpawnY)
       IN  /\ hx' = c[1]
           /\ hy' = c[2]
           /\ IF is_tile_blocked(tiles, c[1], c[2])
              THEN /\ head' = r.head
                   /\ dir' = r.dir
                   /\ tail' = <<>>
                   /\ went' = "none"
                   /\ fr' = [fr EXCEPT !.breset = TRUE]
                   /\ last' = Snap("blocked_reset")
              ELSE /\ UNCHANGED <<head, dir, tail, went, fr>>
                   /\ last' = Snap("blocked_pass")
    /\ pc' = "active"
    /\ UNCHANGED <<tiles, keys_hm, pause, is_running, add_segment, eaten>>

\* if map.is_tile_active(hx, hy) { map.deactivate_tile(hx, hy); ...
CheckActive ==
    /\ pc = "active"
    /\ IF is_tile_active(tiles, hx, hy)
       THEN /\ tiles' = deactivate_tile(tiles, hx, hy)
            /\ pc' = "pick"
            /\ eaten' = IF eaten < MaxEaten THEN eaten + 1 ELSE eaten
            /\ fr' = [fr EXCEPT !.ate = TRUE]
            /\ last' = Snap("consume")
       ELSE /\ UNCHANGED <<tiles, eaten, fr>>
            /\ pc' = "self"
            /\ last' = Snap("active_pass")
    /\ UNCHANGED <<head, dir, tail, keys_hm, pause, is_running, add_segment, hx, hy, went>>

\* ... one iteration of new_random_tile; on return activate_tile and add_segment = true }
Pick ==
    /\ pc = "pick"
    /\ \E rng_x \in rand_range(1, rows - 1), rng_y \in rand_range(1, cols - 1) :
         IF rejected(rng_x, rng_y, head, tail, tiles)
         THEN UNCHANGED <<tiles, add_segment, pc, last>>
         ELSE /\ tiles' = activate_tile(tiles, rng_x, rng_y)
              /\ add_segment' = TRUE
              /\ pc' = "self"
              /\ last' = [Snap("pick") EXCEPT !.gx = rng_x, !.gy = rng_y,
                                               !.gwas = tiles[tile_index(rng_x, rng_y) + 1]]
    /\ UNCHANGED <<head, dir, tail, keys_hm, pause, is_running, hx, hy, eaten, went, fr>>

\* a plausible bug: the loop stops after its first segment
CheckSelf_first_only ==
    /\ pc = "self"
    /\ LET r == Head_reset(head, dir, SpawnX, SpawnY)
       IN  IF Len(tail) >= 1 /\ get_tile_coord(tail[1].x, tail[1].y) = <<hx, hy>>
           THEN /\ head' = r.head
                /\ dir' = r.dir
                /\ tail' = <<>>
                /\ went' = "none"
                /\ fr' = [fr EXCEPT !.sreset = TRUE]
                /\ last' = Snap("self_reset")
           ELSE /\ UNCHANGED <<head, dir, tail, went, fr>>
                /\ last' = Snap("self_pass")
    /\ pc' = "tick"
    /\ UNCHANGED <<tiles, keys_hm, pause, is_running, add_segment, hx, hy, eaten>>

\* for t in tail.iter_mut() { if (tx, ty) == (hx, hy) { reset; break } }
CheckSelf ==
    /\ pc = "self"
    /\ LET r == Head_reset(head, dir, SpawnX, SpawnY)
       IN  IF \E i \in 1..Len(tail) : get_tile_coord(tail[i].x, tail[i].y) = <<hx, hy>>
           THEN /\ head' = r.head
                /\ dir' = r.dir
                /\ tail' = <<>>
                /\ went' = "none"
                /\ fr' = [fr EXCEPT !.sreset = TRUE]
                /\ last' = Snap("self_reset")
           ELSE /\ UNCHANGED <<head, dir, tail, went, fr>>
                /\ last' = Snap("self_pass")
    /\ pc' = "tick"
    /\ UNCHANGED <<tiles, keys_hm, pause, is_running, add_segment, hx, hy, eaten>>

\* a plausible bug: the snake moves in every frame
throttle_every_frame(elapsed, h, d, tl, add) == step(h, d, tl, add)

\* the snake is moved only when the tick timer has elapsed
throttle(elapsed, h, d, tl, add) ==
    IF elapsed THEN step(h, d, tl, add) ELSE [head |-> h, tail |-> tl, add |-> add]

\* if update_snake.elapsed_time() >= 95 { step }; render; the loop condition
Tick ==
    /\ pc = "tick"
    /\ \E elapsed \in BOOLEAN :
         LET s == throttle(elapsed, head, dir, tail, add_segment)
         IN  /\ Len(s.tail) <= MaxTail
             /\ head' = s.head
             /\ tail' = s.tail
             /\ add_segment' = s.add
             /\ eaten' = IF elapsed THEN 0 ELSE eaten
             /\ went' = IF elapsed THEN dir ELSE went
             /\ last' = Snap(IF elapsed THEN "tick" ELSE "no_tick")
    /\ hx' = 0
    /\ hy' = 0
    /\ pc' = IF is_running THEN "poll" ELSE "done"
    /\ UNCHANGED <<dir, tiles, keys_hm, pause, is_running, fr>>

Next ==
    \/ PollEvent
    \/ PollDone
    \/ Inputs
    \/ CheckBlocked
    \/ CheckActive
    \/ Pick
    \/ CheckSelf
    \/ Tick

Spec == Init /\ [][Next]_vars

\* The samples of thread_rng are fair: a pair that new_random_tile would return
\* is not avoided forever.
FairSpec == Init /\ [][Next]_vars /\ WF_vars(Pick)

TypeOK ==
    /\ dir \in Directions
    /\ \A i \in 1..Len(tiles) : tiles[i] \in TileTypes
    /\ Len(tiles) = rows * cols
    /\ keys_hm \in [MoveKeys -> BOOLEAN]
    /\ pc \in {"poll", "inputs", "blocked", "active", "pick", "self", "tick", "done"}

-----------------------------------------------------------------------------
(* Properties *)

\* the key Head::inputs tests for a heading
KeyOf(d) ==
    CASE d = "Up" -> "W"
      [] d = "Down" -> "S"
      [] d = "Left" -> "A"
      [] d = "Right" -> "D"

Pressed == {k \in MoveKeys : keys_hm[k]}

\* the grid cell of a screen position
CellOf(p) == get_tile_coord(p.x, p.y)

Abs(n) == IF n < 0 THEN -n ELSE n

\* two cells exactly one cell apart, horizontally or vertically
Adjacent(a, b) == Abs(a[1] - b[1]) + Abs(a[2] - b[2]) = 1

InGrid(x, y) == 0 <= x /\ x < rows /\ 0 <= y /\ y < cols

QueryX == (0 - QueryPad) .. (rows - 1 + QueryPad)
QueryY == (0 - QueryPad) .. (cols - 1 + QueryPad)

\* C1: one call of Head::inputs never leaves the heading equal to the opposite
\* of the heading held before the call, whatever keys are pressed.
C1_NoReversal == last.op = "inputs" => dir # Opposite(last.dir)

\* C1 witness: inputs ran with the key of the opposite heading pressed together
\* with another key.
C1_Witness ==
    /\ last.op = "inputs"
    /\ KeyOf(Opposite(last.dir)) \in Pressed
    /\ Cardinality(Pressed) >= 2
    /\ dir # last.dir

\* C2: after the movement of a tick, segment i is where segment i-1 was just
\* before the movement, and the first segment is where the head was.
C2_ChainFollows ==
    last.op = "tick" =>
        /\ Len(tail) >= Len(last.tail)
        /\ \A i \in 1..Len(last.tail) :
              tail[i] = IF i = 1 THEN last.head ELSE last.tail[i - 1]

\* C2 witness: a tick moved a snake of two segments at three different positions.
C2_Witness ==
    /\ last.op = "tick"
    /\ Len(last.tail) = 2
    /\ last.tail[1] # last.tail[2]
    /\ last.head # last.tail[1]
    /\ head # last.head

\* C3: right after a reset, by a Blocked head tile or by a segment on the head's
\* cell, the snake has no segments, the head is at (150,150) and heads Right.
C3_ResetState ==
    /\ (pc = "active" /\ is_tile_blocked(tiles, hx, hy)) =>
          (last.op = "blocked_reset" /\ tail = <<>> /\ head = [x |-> 150, y |-> 150] /\ dir = "Right")
    /\ (pc = "tick" /\ \E i \in 1..Len(last.tail) : CellOf(last.tail[i]) = <<hx, hy>>) =>
          (last.op = "self_reset" /\ tail = <<>> /\ head = [x |-> 150, y |-> 150] /\ dir = "Right")

\* C3 witness: a segment on the head's cell reset a snake that was away from the
\* spawn and not heading Right.
C3_Witness ==
    /\ last.op = "self_reset"
    /\ last.dir # "Right"
    /\ last.head # Spawn
    /\ Len(last.tail) = 2

\* C4: is_tile_blocked and is_tile_active return false for every coordinate
\* outside the grid.
C4_OutsideIsFalse ==
    \A x \in QueryX, y \in QueryY :
        ~InGrid(x, y) => (~is_tile_blocked(tiles, x, y) /\ ~is_tile_active(tiles, x, y))

\* C5: activate_tile and deactivate_tile change no tile for a coordinate outside
\* the grid.
C5_OutsideIsNoOp ==
    \A x \in QueryX, y \in QueryY :
        ~InGrid(x, y) => (activate_tile(tiles, x, y) = tiles /\ deactivate_tile(tiles, x, y) = tiles)

\* C6: a tick appends no or one segment, however many Active tiles were consumed
\* since the previous tick, and leaves the pending-growth flag false.
C6_GrowthOncePerTick ==
    last.op = "tick" =>
        /\ Len(tail) - Len(last.tail) \in {0, 1}
        /\ ~add_segment

\* C6 witness: a tick after two consumptions appended one segment.
C6_Witness ==
    /\ last.op = "tick"
    /\ last.eaten >= 2
    /\ Len(tail) = Len(last.tail) + 1

\* C7: the first tick after a consumption appends exactly one segment, at the
\* position the last segment (the head, without segments) held before the tick.
C7_GrowsAtVacated ==
    (last.op = "tick" /\ last.eaten > 0) =>
        /\ Len(tail) = Len(last.tail) + 1
        /\ tail[Len(tail)] = IF last.tail = <<>> THEN last.head
                             ELSE last.tail[Len(last.tail)]

\* C7 witness: the tick after a consumption moved a snake with a segment.
C7_Witness ==
    /\ last.op = "tick"
    /\ last.eaten > 0
    /\ Len(last.tail) >= 1
    /\ last.tail[Len(last.tail)] # last.head

\* C8: after a tick the first segment is in a cell next to the head's and every
\* further segment in a cell next to the one before it.
C8_Connected ==
    last.op = "tick" =>
        \A i \in 1..Len(tail) :
            Adjacent(CellOf(tail[i]), IF i = 1 THEN CellOf(head) ELSE CellOf(tail[i - 1]))

\* C8 witness: a tick appended the second segment.
C8_Witness ==
    /\ last.op = "tick"
    /\ Len(last.tail) = 1
    /\ Len(tail) = 2

Order == <<"Up", "Down", "Left", "Right">>

Qualifies(i, d) == KeyOf(Order[i]) \in Pressed /\ Order[i] # Opposite(d)

\* the first pressed heading, in Order, that is not the opposite of d; d if none
FirstQualifying(d) ==
    IF \E i \in 1..4 : Qualifies(i, d)
    THEN Order[CHOOSE i \in 1..4 : Qualifies(i, d) /\ \A j \in 1..(i - 1) : ~Qualifies(j, d)]
    ELSE d

\* C9: after Head::inputs the heading is the first pressed heading in the order
\* Up, Down, Left, Right that is not the opposite of the heading before, and the
\* heading before when there is none.
C9_Precedence == last.op = "inputs" => dir = FirstQualifying(last.dir)

\* C9 witness: the first pressed heading was rejected and a later one taken.
C9_Witness ==
    /\ last.op = "inputs"
    /\ \E i \in 1..4 : KeyOf(Order[i]) \in Pressed /\ ~Qualifies(i, last.dir)
                       /\ \E j \in (i + 1)..4 : dir = Order[j] /\ dir # last.dir

\* C10: the tile activated after a consumption is inside [1, rows-1) x [1, cols-1),
\* was not Blocked, shares no column or row with the head or a segment, and is
\* not the tile just consumed.
C10_GoalPlacement ==
    last.op = "pick" =>
        /\ 1 <= last.gx /\ last.gx < rows - 1
        /\ 1 <= last.gy /\ last.gy < cols - 1
        /\ last.gwas # "Blocked"
        /\ last.gx # CellOf(head)[1] /\ last.gy # CellOf(head)[2]
        /\ \A i \in 1..Len(tail) :
              last.gx # CellOf(tail[i])[1] /\ last.gy # CellOf(tail[i])[2]
        /\ tile_index(last.gx, last.gy) # tile_index(hx, hy)

\* The part of C10 that does not depend on which tile was consumed.
C10_GoalAwayFromSnake ==
    last.op = "pick" =>
        /\ 1 <= last.gx /\ last.gx < rows - 1
        /\ 1 <= last.gy /\ last.gy < cols - 1
        /\ last.gwas # "Blocked"
        /\ last.gx # CellOf(head)[1] /\ last.gy # CellOf(head)[2]
        /\ \A i \in 1..Len(tail) :
              last.gx # CellOf(tail[i])[1] /\ last.gy # CellOf(tail[i])[2]

\* the simulation state: snake, tiles and pending growth
sim == <<head, dir, tail, tiles, add_segment>>

\* C11: while pause is set no step changes the head, the heading, the segments,
\* the tiles or the pending-growth flag and the frame body is not entered, while
\* events are still handled: they can change the key map, clear pause and stop
\* the loop.
C11_PausedFrozen ==
    /\ [](pause => pc \in {"poll", "done"})
    /\ [][pause => UNCHANGED sim]_vars
    /\ []((pause /\ pc = "poll") =>
            /\ ENABLED (PollEvent /\ keys_hm' # keys_hm)
            /\ ENABLED (PollEvent /\ ~pause')
            /\ ENABLED (PollEvent /\ ~is_running'))

\* C11 witness: a key event changed the key map while the game was paused, with
\* a snake that has a segment.
C11_Witness ==
    /\ last.op = "poll_paused_key"
    /\ pause
    /\ Len(tail) >= 1
    /\ Pressed # {}

\* some segment of tl is in the grid cell of position h
SegmentOnCellOf(tl, h) == \E i \in 1..Len(tl) : CellOf(tl[i]) = CellOf(h)

\* C12: at the end of a frame whose tick timer had not elapsed the head and the
\* segments are where they were at the start of the frame unless the frame
\* reset the snake, while the frame applied the input to the heading and ran the
\* blocked, active and self-collision checks on the head's cell.
C12_ThrottledMove ==
    last.op = "no_tick" =>
        /\ (~fr.breset /\ ~fr.sreset) =>
               (head = fr.head /\ tail = fr.tail /\ dir = FirstQualifying(fr.dir))
        /\ (fr.breset \/ fr.sreset) => (head = Spawn /\ tail = <<>> /\ dir = "Right")
        /\ fr.breset <=> is_tile_blocked(fr.tiles, CellOf(fr.head)[1], CellOf(fr.head)[2])
        /\ fr.ate <=> is_tile_active(fr.tiles, CellOf(fr.head)[1], CellOf(fr.head)[2])
        /\ fr.ate => add_segment
        /\ fr.sreset <=> (~fr.breset /\ SegmentOnCellOf(fr.tail, fr.head))

\* C12 witness: a frame without tick changed the heading and consumed an Active
\* tile and left the head and its segment in place.
C12_Witness ==
    /\ last.op = "no_tick"
    /\ fr.ate
    /\ dir # fr.dir
    /\ Len(tail) >= 1
    /\ head = fr.head
    /\ tail = fr.tail

\* new is ts with the tile at position k (counted from 1) set to type t
IsSetTile(new, ts, k, t) ==
    /\ Len(new) = Len(ts)
    /\ \A i \in 1..Len(ts) : new[i] = IF i = k THEN t ELSE ts[i]

\* C13: for every (x,y) of the grid the Map operations address the tile at
\* linear index x + width * y (the queries read it, activate_tile and
\* deactivate_tile change it and no other tile), and get_tile_coord maps
\* (x * BLOCK_SIZE, y * BLOCK_SIZE) back to (x,y) for all integers x, y.  Every
\* value of tiles is checked in the state right after the step that produced it.
C13_IndexAndRoundTrip ==
    last.op \in {"init", "consume", "pick"} =>
        /\ \A x \in 0..(rows - 1) : \A y \in 0..(cols - 1) :
              LET k == x + rows * y + 1
              IN  /\ is_tile_blocked(tiles, x, y) = (tiles[k] = "Blocked")
                  /\ is_tile_active(tiles, x, y) = (tiles[k] = "Active")
                  /\ IsSetTile(activate_tile(tiles, x, y), tiles, k, "Active")
                  /\ IsSetTile(deactivate_tile(tiles, x, y), tiles, k, "NonActive")
        /\ \A x \in QueryX : \A y \in QueryY :
              get_tile_coord(x * BLOCK_SIZE, y * BLOCK_SIZE) = <<x, y>>

\* C13 witness: a goal was activated inside the grid after a consumption inside
\* the grid, on a grid that already has a consumed tile.
C13_Witness ==
    /\ last.op = "pick"
    /\ InGrid(hx, hy)
    /\ tiles[last.gx + rows * last.gy + 1] = "Active"
    /\ \E i \in 1..Len(tiles) : tiles[i] = "NonActive"

\* C14: on two consecutive ticks with no reset between them the second tick's
\* displacement is never the opposite of the first one's, whatever keys the
\* frames between the two ticks saw, and so the head does not step onto the cell
\* that segment[0] held before the second tick.
C14_NoReversalAcrossTicks ==
    (last.op = "tick" /\ last.went # "none") =>
        /\ went # Opposite(last.went)
        /\ Len(last.tail) >= 1 => CellOf(head) # CellOf(last.tail[1])

\* C15: in a frame whose blocked check reset the snake, the snake is at spawn
\* with no segments, and the rest of the frame's checks do nothing: the tiles and
\* the pending-growth flag are those of the frame's start, nothing is consumed
\* and the self-collision check does not reset again.
C15_BlockedFrame ==
    (fr.breset /\ pc \in {"active", "pick", "self", "tick"}) =>
        /\ head = Spawn /\ tail = <<>> /\ dir = "Right"
        /\ tiles = fr.tiles
        /\ add_segment = fr.add
        /\ ~fr.ate /\ ~fr.sreset
        /\ pc # "pick"

\* C15 witness: a snake with segments, not heading Right, was reset by the blocked
\* check and the frame's checks are over.
C15_Witness ==
    /\ pc = "tick"
    /\ fr.breset
    /\ Len(fr.tail) >= 1
    /\ fr.dir # "Right"

\* a coordinate of [1, rows-1) x [1, cols-1) that is not Blocked and shares no
\* column and no row with the head or with any segment
HasCandidate ==
    \E x \in 1..(rows - 2) : \E y \in 1..(cols - 2) :
        /\ tiles[x + rows * y + 1] # "Blocked"
        /\ x # CellOf(head)[1] /\ y # CellOf(head)[2]
        /\ \A i \in 1..Len(tail) : x # CellOf(tail[i])[1] /\ y # CellOf(tail[i])[2]

\* C16: under fair sampling new_random_tile returns whenever such a coordinate
\* exists, and while none exists the search makes no step at all: the frame
\* stays in the search for ever.
C16_SearchTerminates ==
    /\ (pc = "pick" /\ HasCandidate) ~> (pc = "self")
    /\ [][(pc = "pick" /\ ~HasCandidate) => pc' = "pick"]_vars

\* C16 witness: the search has returned for a snake with segments.
C16_Witness ==
    /\ last.op = "pick"
    /\ pc = "self"
    /\ Len(tail) >= 1

\* the other case of C16: a search that cannot return
C16_Stuck == pc = "pick" /\ ~HasCandidate

\* C17: when the frame reaches its tick, and so whenever step executes, no
\* segment is on the head's grid cell; a frame whose blocked check or
\* self-collision check reset the snake reaches the tick with no segments.
C17_NoSegmentUnderHead ==
    /\ pc = "tick" =>
          /\ ~SegmentOnCellOf(tail, head)
          /\ (fr.breset \/ fr.sreset) => tail = <<>>
          /\ (~fr.breset /\ ~fr.sreset) => ~SegmentOnCellOf(fr.tail, fr.head)
    /\ last.op = "tick" => ~SegmentOnCellOf(last.tail, last.head)

\* C17 witness: step executed in a frame whose self-collision check found the
\* second segment on the head's cell.
C17_Witness ==
    /\ last.op = "tick"
    /\ fr.sreset
    /\ Len(fr.tail) >= 2
    /\ CellOf(fr.tail[1]) # CellOf(fr.head)

\* C18: a frame in which a reset occurred ends with zero segments: the tick of
\* that frame appends no segment to the freshly reset snake.
C18_ResetFrameEndsEmpty ==
    (last.op \in {"tick", "no_tick"} /\ (fr.breset \/ fr.sreset)) => tail = <<>>

\* the part of C18 that holds: a reset frame whose head started inside the grid
\* ends with zero segments
C18_ResetFrameInsideGrid ==
    (/\ last.op \in {"tick", "no_tick"}
     /\ (fr.breset \/ fr.sreset)
     /\ InGrid(CellOf(fr.head)[1], CellOf(fr.head)[2])) => tail = <<>>

NumActive(ts) == Cardinality({i \in 1..Len(ts) : ts[i] = "Active"})

\* the part of C19 that holds: every completed frame ends with exactly one
\* Active tile, and tiles change only in the consumption of a frame
C19_OneActiveAtFrameEnd ==
    /\ last.op \in {"tick", "no_tick"} => NumActive(tiles) = 1
    /\ (last.op \in {"tick", "no_tick"} /\ ~fr.ate) => tiles = fr.tiles

\* C19: both levels start with one Active tile.  Every completed frame ends with
\* exactly one Active tile; a consumption deactivates the tile of the head and
\* activates one other tile, so that the tiles after it differ from the frame's
\* first tiles in exactly these two; and no other step changes tiles.
C19_OneActiveTile ==
    /\ [](last.op \in {"tick", "no_tick"} => NumActive(tiles) = 1)
    /\ [](last.op = "pick" =>
            LET ci == tile_index(hx, hy)
                pi == tile_index(last.gx, last.gy)
            IN  /\ pi # ci
                /\ tiles = [fr.tiles EXCEPT ![ci + 1] = "NonActive", ![pi + 1] = "Active"])
    /\ [][tiles' # tiles => pc \in {"active", "pick"}]_vars

BlockedSet(ts) == {i \in 1..Len(ts) : ts[i] = "Blocked"}

\* C20: the Blocked tiles are those of the loaded level and no step changes
\* them; deactivate_tile is applied to an Active tile only and activate_tile to
\* a tile that is not Blocked only.
C20_BlockedFixed ==
    /\ [](BlockedSet(tiles) \in {BlockedSet(load_from_file(lv)) : lv \in Levels})
    /\ [][BlockedSet(tiles') = BlockedSet(tiles) /\ Len(tiles') = Len(tiles)]_vars
    /\ [](last.op = "consume" => fr.tiles[tile_index(hx, hy) + 1] = "Active")
    /\ [](last.op = "pick" => last.gwas # "Blocked")

\* C20 witness: after ticks, a consumption and a reset a new goal was activated
\* on a grid that holds a consumed tile.
C20_Witness ==
    /\ last.op = "pick"
    /\ \E i \in 1..Len(tiles) : tiles[i] = "NonActive"
    /\ Len(tail) >= 1
    /\ head # Spawn

====
